---- MODULE Spec2Model ----
(***************************************************************************)
(* The event-driven core of chat-plays-chess: the Engine loop              *)
(* (src/src/engine/mod.rs), the GameManager (src/src/lichess/game.rs),     *)
(* the game VoteTracker (src/src/engine/votes/game.rs), the                *)
(* ChallengeManager (src/src/lichess/challenge.rs) and the internal        *)
(* EventQueue (src/src/engine/events/internal.rs).                         *)
(*                                                                         *)
(* The engine runs on a current-thread tokio runtime (src/src/main.rs:53): *)
(* a spawned task (vote commit, challenge cancel, game abort) runs only    *)
(* while the engine is suspended at an await, which `yielded` records.     *)
(***************************************************************************)
EXTENDS Integers, Sequences, FiniteSets, TLC

\* ---------------------------------------------------------------- bounds
MaxGames == 2
MaxChallenges == 2
MaxUsers == 3
MaxPlies == 2
MaxVoteTasks == 2
MaxQueue == 4
\* the longest move list of a game stream payload taken on its own
MaxMoveList == 2
\* the most minutes on a Timer taken on its own
MaxMinutes == 2
\* the games the service starts in the specifications about one game
SingleGame == 1
\* the chat users of the specifications about one voter
SingleUser == 1

GameIds == 1..MaxGames
ChallengeIds == 1..MaxChallenges
Users == 1..MaxUsers

\* Option::None of a GameId / ChallengeId.
NoId == 0

\* lichess_api::model::Speed
Speeds == {"UltraBullet", "Bullet", "Blitz", "Rapid", "Classical", "Correspondence"}
\* the speeds the remote service starts games with in this model
GameSpeeds == {"Bullet", "Blitz", "Rapid"}
Colors == {"white", "black"}

\* Vote, by its to_string(): Delay, Draw, Resign, Move(uci)
MoveVotes == {"e2e4", "e7e5"}
Votes == {"delay", "draw", "resign"} \cup MoveVotes
\* what a chat user can type after `!game `
ChatTexts == Votes \cup {"DRAW", "zz"}

\* ------------------------------------------------------------- the board
\* The chess library is an external collaborator. A board is abstracted to the
\* number of plies played from the start position: white is to move on even
\* plies, and the one move a side may play is e2e4 (white) or e7e5 (black).
SideToMove(plies) == IF plies % 2 = 0 THEN "white" ELSE "black"

Legal(plies, uci) ==
    \/ uci = "e2e4" /\ SideToMove(plies) = "white"
    \/ uci = "e7e5" /\ SideToMove(plies) = "black"

\* ------------------------------------------------------------ map helpers
Remove(f, k) == [x \in (DOMAIN f) \ {k} |-> f[x]]

Insert(f, k, v) == [x \in (DOMAIN f) \cup {k} |-> IF x = k THEN v ELSE f[x]]

EmptyMap == [x \in {} |-> 0]

\* an internal event: t its variant, g the game or challenge id it carries,
\* x a further payload (clip, was_us)
Ev(t, g, x) == [t |-> t, g |-> g, x |-> x]

\* ---------------------------------------------------------------- Delays
DelaysNew(max) == [current |-> 0, max |-> max]

DelaysAddDelay(d) ==
    [d EXCEPT !.current = IF d.current + 1 < d.max THEN d.current + 1 ELSE d.max]

\* can_delay with the bound included
CanDelayInclusive(d) == d.current <= d.max

CanDelay(d) == d.current < d.max

\* ------------------------------------------------------- VoteTracker::new
\* (max_delays, vote_duration in seconds) by speed
SpeedTable(speed) ==
    CASE speed = "UltraBullet" -> <<3, 2>>
      [] speed = "Bullet" -> <<5, 5>>
      [] speed = "Blitz" -> <<6, 12>>
      [] speed = "Rapid" -> <<8, 36>>
      [] speed = "Classical" -> <<10, 72>>
      [] OTHER -> <<1, 1>>

VoteTrackerNew(speed) ==
    [enabled |-> FALSE,
     delays |-> DelaysNew(SpeedTable(speed)[1]),
     votes |-> EmptyMap,
     vote_duration |-> SpeedTable(speed)[2],
     vote_timer |-> FALSE]

\* the speed Engine::new builds the tracker with
EngineTrackerSpeed == "Blitz"

\* ------------------------------------------------------------------ state
VARIABLES
    games,              \* GameManager.games: GameId -> Game
    current_game_id,    \* GameManager.current_game_id (NoId = None)
    last_finished_game, \* GameManager.last_finished_game: <<>> or <<[id, game]>>
    game_votes,         \* Engine.game_votes: the VoteTracker
    outbound,           \* ChallengeManager.outbound (NoId = None)
    queue,              \* Engine.internal_queue
    pc,                 \* where Engine::process stands: "fetch" or "drain"
    yielded,            \* the engine is, or has just been, suspended at an await
    vote_tasks,         \* the live commit tasks spawned by schedule_action_vote
    cancel_tasks,       \* per challenge: its 20 s cancel-task
    abort_tasks,        \* the games with a live 30 s GameAbortable task
    rgame,              \* the remote service: what it has sent about each game
    rplies,             \* the remote service: plies played in each game
    rchal,              \* the remote service: state of each challenge of ours
    last_processed,     \* history: variant of the internal event dispatched last
    delay_wins,         \* history: Delay wins accepted since the last reset()
    started,            \* history: the game whose GameStart this cycle dispatched
                        \* while current_game() was None (NoId = no such game)
    admitted,           \* history: per user, the vote add_vote admitted last since
                        \* the votes were cleared ("none" = no vote)
    closed,             \* history: a VotingFinished found a winner other than Delay
                        \* and neither OurTurn nor NewCurrentGame has enabled since
    issued,             \* history: the challenges create_challenge has made since a
                        \* game was last adopted as the current game
    settings_votes,     \* Engine.settings_votes: the settings VoteTracker's voter sets
    commit,             \* history: what make_move did, if the step taken last was
                        \* the dispatch of a Move (NoCommit otherwise)
    probe               \* a value of the library types taken on its own: a Game
                        \* built and updated from the game stream's payloads, or
                        \* a Timer (NoProbe = none built yet)

vars == <<games, current_game_id, last_finished_game, game_votes, outbound, queue,
          pc, yielded, vote_tasks, cancel_tasks, abort_tasks, rgame, rplies, rchal,
          last_processed, delay_wins, started, admitted, closed, issued,
          settings_votes, commit, probe>>

\* the history variables the vote tracker's operations write
voteHist == <<delay_wins, admitted>>

NoneAdmitted == [u \in Users |-> "none"]

\* make_move's record: the game of the Move action, the result of get_top_vote,
\* the remote call made ("none" = no call), the move it carried and its result
Commit(g, vote, call, uci, ok) == [g |-> g, vote |-> vote, call |-> call, uci |-> uci, ok |-> ok]

\* make_move did not run in the step taken last
NoCommit == Commit(NoId, "none", "idle", "none", FALSE)

\* no Game and no Timer has been built on its own
NoProbe == [op |-> "none"]

\* settings::VoteTracker::new
SettingsTrackerNew == [bullet |-> {}, rapid |-> {}, classical |-> {}]

gmVars == <<games, current_game_id, last_finished_game>>

\* the engine and its environment: everything but the probe
engineVars == <<games, current_game_id, last_finished_game, game_votes, outbound, queue,
                pc, yielded, vote_tasks, cancel_tasks, abort_tasks, rgame, rplies, rchal,
                last_processed, delay_wins, started, admitted, closed, issued,
                settings_votes, commit>>
taskVars == <<vote_tasks, cancel_tasks, abort_tasks>>
envVars == <<rgame, rplies, rchal>>

\* Engine::new: the queue holds FindNewGame, the tracker is built for Blitz.
Init ==
    /\ games = EmptyMap
    /\ current_game_id = NoId
    /\ last_finished_game = <<>>
    /\ game_votes = VoteTrackerNew(EngineTrackerSpeed)
    /\ outbound = NoId
    /\ queue = <<Ev("FindNewGame", NoId, "")>>
    /\ pc = "fetch"
    /\ yielded = FALSE
    /\ vote_tasks = <<>>
    /\ cancel_tasks = [c \in ChallengeIds |-> "none"]
    /\ abort_tasks = {}
    /\ rgame = [g \in GameIds |-> [acct |-> "none", stream |-> "none"]]
    /\ rplies = [g \in GameIds |-> 0]
    /\ rchal = [c \in ChallengeIds |-> "none"]
    /\ last_processed = "none"
    /\ delay_wins = 0
    /\ started = NoId
    /\ admitted = NoneAdmitted
    /\ closed = FALSE
    /\ issued = {}
    /\ settings_votes = SettingsTrackerNew
    /\ commit = NoCommit
    /\ probe = NoProbe

\* ------------------------------------------------------------ GameManager
\* Instant timestamps are kept as ranks: only their order is ever used.
Rank(gs, g) == Cardinality({h \in DOMAIN gs : gs[h].ts <= gs[g].ts})

Normalize(gs) == [g \in DOMAIN gs |-> [gs[g] EXCEPT !.ts = Rank(gs, g)]]

\* Instant::now(): later than every timestamp taken so far
Now(gs) == Cardinality(DOMAIN gs) + 1

\* Game::from_game_start
FromGameStart(gs, speed, color, is_my_turn, plies) ==
    [speed |-> speed, ts |-> Now(gs), finished |-> FALSE, is_our_turn |-> is_my_turn,
     color |-> color, plies |-> plies]

\* Game::from_game_full: the board is replayed from the payload's moves
FromGameFull(gs, speed, color, plies) ==
    [speed |-> speed, ts |-> Now(gs), finished |-> FALSE,
     is_our_turn |-> (color = SideToMove(plies)), color |-> color, plies |-> plies]

\* GameManager::current_game drops the current game's entry once it is finished
\* and leaves current_game_id as it is: the games map after the call
GamesAfterCurrentGame(gs, cur) ==
    IF cur # NoId /\ cur \in DOMAIN gs /\ gs[cur].finished THEN Remove(gs, cur) ELSE gs

\* GameManager::current_game(): is the result Some
CurrentGameIsSome(gs, cur) == cur # NoId /\ cur \in DOMAIN GamesAfterCurrentGame(gs, cur)

\* GameManager::oldest_game_id (NoId = None)
OldestGameId(gs) ==
    IF DOMAIN gs = {} THEN NoId
    ELSE CHOOSE g \in DOMAIN gs : \A h \in DOMAIN gs : gs[g].ts <= gs[h].ts

\* GameManager::switch_game: the manager's fields after the call and what it sent
SwitchGame(gs, cur, g) ==
    IF g \in DOMAIN gs /\ ~gs[g].finished
    THEN [games |-> gs, cur |-> g, out |-> <<Ev("NewCurrentGame", NoId, "")>>]
    ELSE IF g \in DOMAIN gs
    THEN [games |-> Remove(gs, g), cur |-> IF cur = g THEN NoId ELSE cur,
          out |-> <<Ev("FindNewGame", NoId, "")>>]
    ELSE [games |-> gs, cur |-> cur, out |-> <<>>]

\* switch_game made its argument the current game
Adopts(sw) == sw.out # <<>> /\ sw.out[1].t = "NewCurrentGame"

\* GameManager::convert_move (it calls current_game): Some(move) or None
ConvertMoveIsSome(gs, cur, text) ==
    /\ CurrentGameIsSome(gs, cur)
    /\ text \in MoveVotes
    /\ Legal(gs[cur].plies, text)

\* ------------------------------------------------------------ VoteTracker
Range(f) == {f[x] : x \in DOMAIN f}

GameVotesChanged == Ev("GameVotesChanged", NoId, "")

\* VoteTracker::get_top_vote counts a vote's first voter as 0 (or_insert(0)) and
\* every further voter as 1 more
VoteCount(votes, v) == Cardinality({u \in DOMAIN votes : votes[u] = v}) - 1

\* get_top_vote returning any recorded vote
AnyVotes(votes) == Range(votes)

\* VoteTracker::get_top_vote: max_by_key over a HashMap built afresh on every
\* call, so among equal counts the iteration order decides. The empty set is None.
TopVotes(votes) ==
    {v \in Range(votes) : \A w \in Range(votes) : VoteCount(votes, w) <= VoteCount(votes, v)}

\* get_top_vote() as a set of possible results, "none" standing for None
TopVoteResults(votes) == IF TopVotes(votes) = {} THEN {"none"} ELSE TopVotes(votes)

\* VoteTracker::game_votes: total_votes of a vote string (0 = no entry)
TotalVotes(votes, v) == Cardinality({u \in DOMAIN votes : votes[u] = v})

\* VoteTracker::add_vote: the tracker after the call
AddVote(t, user, vote) ==
    IF ~t.enabled THEN t
    ELSE IF ~CanDelay(t.delays) /\ vote = "delay" THEN t
    ELSE [t EXCEPT !.votes = Insert(t.votes, user, vote)]

\* what add_vote sends
AddVoteOut(t, user, vote) ==
    IF ~t.enabled THEN <<>>
    ELSE IF ~CanDelay(t.delays) /\ vote = "delay" THEN <<>>
    ELSE <<GameVotesChanged>>

Enable(t) == [t EXCEPT !.enabled = TRUE]

Disable(t) == [t EXCEPT !.enabled = FALSE]

AddDelay(t) == [t EXCEPT !.delays = DelaysAddDelay(t.delays)]

\* reset_voting zeroing the delay counter as well
ResetVotingAndDelays(t) ==
    [t EXCEPT !.votes = EmptyMap, !.vote_timer = FALSE, !.delays = DelaysNew(t.delays.max)]

\* VoteTracker::reset_voting: the votes go, the timer handle is dropped
ResetVoting(t) == [t EXCEPT !.votes = EmptyMap, !.vote_timer = FALSE]

\* reset keeping the delay counter
ResetKeepsDelays(t) == ResetVoting(t)

\* VoteTracker::reset
Reset(t) == ResetVoting([t EXCEPT !.delays = DelaysNew(t.delays.max)])

\* dropping a JoinHandle detaches its task: the task lives on, held by nobody
Detach(tasks) == [i \in DOMAIN tasks |-> [tasks[i] EXCEPT !.held = FALSE]]

\* JoinHandle::abort on the handle in vote_timer: the held task, if it still runs,
\* never runs again
AbortHeld(tasks) == SelectSeq(tasks, LAMBDA k : ~k.held)

\* VoteTracker::schedule_action_vote: the commit tasks after the call
ScheduleTasks(t, tasks, g) ==
    Append(IF t.vote_timer THEN AbortHeld(tasks) ELSE tasks,
           [game |-> g, left |-> t.vote_duration, held |-> TRUE])

ScheduleActionVote(t) == [t EXCEPT !.vote_timer = TRUE]

\* --------------------------------------------------------- ChallengeManager
\* a cancel_outbound that drops the handle without aborting it
DetachCancelTask(ct, c) == ct

\* JoinHandle::abort on a challenge's cancel-task
AbortCancelTask(ct, c) ==
    IF c # NoId /\ ct[c] = "live" THEN [ct EXCEPT ![c] = "aborted"] ELSE ct

\* ------------------------------------------------- Engine: external events
\* Engine::process fetches at most one external event, dispatches it, and then
\* drains the internal queue.
FetchedWith(out, awaited, game_started, votes_admitted) ==
    /\ queue' = queue \o out
    /\ pc' = "drain"
    /\ yielded' = awaited
    /\ started' = game_started
    /\ admitted' = votes_admitted
    /\ commit' = NoCommit
    /\ UNCHANGED <<last_processed, delay_wins, closed, issued, settings_votes, probe>>

Fetched(out, awaited) == FetchedWith(out, awaited, NoId, admitted)

\* process_game_start without its check of current_game_id
StartIsNeverDropped(cur) == FALSE

\* process_game_start returns at once while current_game_id is Some
StartIsDropped(cur) == cur # NoId

\* GameManager::process_game_start, then stream_game
ProcessGameStart(g, speed, color, is_my_turn) ==
    IF StartIsDropped(current_game_id)
    THEN /\ UNCHANGED games
         /\ FetchedWith(<<>>, TRUE,
                        IF CurrentGameIsSome(games, current_game_id) THEN NoId ELSE g,
                        admitted)
    ELSE /\ games' = Normalize(Insert(games, g,
                        FromGameStart(games, speed, color, is_my_turn, rplies[g])))
         /\ FetchedWith(IF g \in DOMAIN games THEN <<>> ELSE <<Ev("GameStarted", g, "")>>,
                        TRUE, g, admitted)

\* AccountEvent::GameStart, the first the service sends for the game
ExtGameStart(g, speed, color) ==
    /\ pc = "fetch"
    /\ rgame[g] = [acct |-> "none", stream |-> "none"]
    /\ rgame' = [rgame EXCEPT ![g].acct = "started"]
    /\ ProcessGameStart(g, speed, color, color = "white")
    /\ UNCHANGED <<current_game_id, last_finished_game, game_votes, outbound, taskVars,
                   rplies, rchal>>

\* AccountEvent::GameStart sent once more for a game that goes on: the payload
\* names the same speed and colour, and whose turn it is by now
ExtGameStartAgain(g, speed, color, is_my_turn) ==
    /\ pc = "fetch"
    /\ rgame[g].acct = "started"
    /\ g \in DOMAIN games => speed = games[g].speed /\ color = games[g].color
    /\ ProcessGameStart(g, speed, color, is_my_turn)
    /\ UNCHANGED <<current_game_id, last_finished_game, game_votes, outbound, taskVars,
                   envVars>>

\* AccountEvent::GameFinish: GameManager::process_game_finish,
\* finish_streaming_game, then FindNewGame
ExtGameFinish(g, is_my_turn) ==
    /\ pc = "fetch"
    /\ rgame[g].acct = "started"
    /\ rgame' = [rgame EXCEPT ![g].acct = "finished"]
    /\ games' = IF g \in DOMAIN games
                THEN [games EXCEPT ![g].is_our_turn = is_my_turn, ![g].finished = TRUE]
                ELSE games
    /\ Fetched(<<Ev("FindNewGame", NoId, "")>>, TRUE)
    /\ UNCHANGED <<current_game_id, last_finished_game, game_votes, outbound, taskVars,
                   rplies, rchal>>

\* GameEvent::GameFull: GameManager::process_game_full. The payload is the
\* first message of the game's stream and carries the moves played so far.
ExtGameFull(g) ==
    /\ pc = "fetch"
    /\ rgame[g].acct # "none"
    /\ rgame[g].stream = "none"
    /\ rgame' = [rgame EXCEPT ![g].stream = "full"]
    /\ IF g \notin DOMAIN games
       THEN /\ UNCHANGED games
            /\ Fetched(<<>>, FALSE)
       ELSE LET game == FromGameFull(games, games[g].speed, games[g].color,
                                     rplies[g])
            IN  /\ games' = Normalize(Insert(games, g, game))
                /\ Fetched(<<Ev(IF game.is_our_turn THEN "OurTurn" ELSE "TheirTurn",
                                g, "")>>, FALSE)
    /\ UNCHANGED <<current_game_id, last_finished_game, game_votes, outbound, taskVars,
                   rplies, rchal>>

\* Game::process_game_state on a replayable move list: the game after the call.
\* `over` is status != "started" || winner.is_some().
ProcessGameState(game, plies, over) ==
    [game EXCEPT !.plies = plies,
                 !.is_our_turn = (game.color = SideToMove(plies)),
                 !.finished = IF over THEN TRUE ELSE game.finished]

\* the clip of a finished current game, from the payload's winner
FinishClip(game, winner) ==
    IF winner = "none" THEN "Draw" ELSE IF winner = game.color THEN "Win" ELSE "Loss"

\* the clip process_game_update sends for last_move: Capture when the board the
\* game had before the update holds a piece on the square last_move lands on.
\* A move of this model lands on an empty square of the board it is made on (no
\* piece can be taken in the first plies of a game); on the board that already
\* holds the move, the square holds the piece that made it.
MoveClip(previous_plies, plies) ==
    IF previous_plies = plies THEN "Capture" ELSE "Move"

\* GameEvent::GameState: GameManager::process_game_update. `moved` says whether
\* the payload carries one move more than the last one; status and winner come
\* with it.
ExtGameState(g, moved, status, winner) ==
    /\ pc = "fetch"
    /\ rgame[g].stream = "full"
    /\ status = "started" => winner = "none"
    /\ moved => rplies[g] < MaxPlies
    /\ rplies' = [rplies EXCEPT ![g] = IF moved THEN @ + 1 ELSE @]
    /\ rgame' = [rgame EXCEPT ![g].stream = IF status = "started" THEN "full" ELSE "closed"]
    /\ IF g \notin DOMAIN games
       THEN /\ UNCHANGED <<games, current_game_id, last_finished_game>>
            /\ Fetched(<<>>, FALSE)
       ELSE LET is_current == current_game_id = g
                previous == games[g]
                game == ProcessGameState(previous, rplies'[g], status # "started")
                \* last_move is Some once the move list is not empty
                clip == IF is_current /\ game.plies > 0
                        THEN <<Ev("PlayClip", NoId, MoveClip(previous.plies, game.plies))>>
                        ELSE <<>>
            IN  /\ games' = [games EXCEPT ![g] = game]
                /\ IF game.finished
                   THEN IF is_current
                        THEN /\ current_game_id' = NoId
                             /\ last_finished_game' = <<[id |-> g, game |-> game]>>
                             /\ Fetched(clip \o <<Ev("PlayClip", NoId, FinishClip(game, winner)),
                                                  Ev("GameFinished", NoId, "")>>, FALSE)
                        ELSE /\ UNCHANGED <<current_game_id, last_finished_game>>
                             /\ Fetched(clip, FALSE)
                   ELSE /\ UNCHANGED <<current_game_id, last_finished_game>>
                        /\ Fetched(clip
                             \o <<Ev(IF game.is_our_turn THEN "OurTurn" ELSE "TheirTurn", g, "")>>
                             \o (IF game.plies # previous.plies
                                 THEN <<Ev("PlayerMoved", g,
                                           IF game.is_our_turn THEN "them" ELSE "us")>>
                                 ELSE <<>>), FALSE)
    /\ UNCHANGED <<game_votes, outbound, taskVars, rchal>>

\* GameEvent::OpponentGone of a game whose stream is open: GameAbortable is sent
\* for the game, then GameManager::process_opponent_gone, which does nothing
ExtOpponentGone(g) ==
    /\ pc = "fetch"
    /\ rgame[g].stream = "full"
    /\ Fetched(<<Ev("GameAbortable", g, "")>>, FALSE)
    /\ UNCHANGED <<gmVars, game_votes, outbound, taskVars, envVars>>

\* process_game_vote taking every other text for a move
ParseGameVoteAnyText(text, move_ok) ==
    IF text \in {"delay", "draw", "resign"} THEN text
    ELSE IF text = "DRAW" THEN "draw"
    ELSE text

\* Engine::process_game_vote: the Vote the text stands for ("none" = no vote)
ParseGameVote(text, move_ok) ==
    IF text \in {"delay", "draw", "resign"} THEN text
    ELSE IF text = "DRAW" THEN "draw"
    ELSE IF move_ok THEN text
    ELSE "none"

\* TwitchEvent::ChatCommand with VoteGame: Engine::process_chat_command
ExtChatVote(user, text) ==
    /\ pc = "fetch"
    /\ LET named == text \in {"delay", "draw", "resign", "DRAW"}
           vote == ParseGameVote(text, ConvertMoveIsSome(games, current_game_id, text))
       IN  /\ games' = IF named THEN games
                       ELSE GamesAfterCurrentGame(games, current_game_id)
           /\ game_votes' = IF vote = "none" THEN game_votes
                            ELSE AddVote(game_votes, user, vote)
           /\ FetchedWith(<<Ev("ChatCommand", NoId, "")>>
                          \o (IF vote = "none" THEN <<>>
                              ELSE AddVoteOut(game_votes, user, vote)),
                          FALSE, NoId,
                          IF vote # "none" /\ AddVoteOut(game_votes, user, vote) # <<>>
                          THEN [admitted EXCEPT ![user] = vote] ELSE admitted)
    /\ UNCHANGED <<current_game_id, last_finished_game, outbound, taskVars, envVars>>

\* ------------------------------------------------ settings::VoteTracker
\* the game modes the tracker keeps a voter set for
GameModes == {"bullet", "rapid", "classical"}

\* settings::VoteTracker::add_game_mode_vote
SettingsAddVote(sv, user, mode, on) ==
    [sv EXCEPT ![mode] = IF on THEN @ \cup {user} ELSE @ \ {user}]

\* is_enabled: count / total >= 0.5 in f64, total being at least 1
IsEnabled(count, total) == IF total = 0 THEN FALSE ELSE 2 * count >= total

\* the total as the sum of the three set sizes
SettingsTotalSum(sv) ==
    Cardinality(sv.bullet) + Cardinality(sv.rapid) + Cardinality(sv.classical)

\* settings(): the size of the set `all` the three voter sets are inserted into
SettingsTotal(sv) == Cardinality(sv.bullet \cup sv.rapid \cup sv.classical)

\* settings::VoteTracker::settings
Settings(sv) ==
    [game_modes |-> [m \in GameModes |-> IsEnabled(Cardinality(sv[m]), SettingsTotal(sv))],
     bullet |-> Cardinality(sv.bullet),
     rapid |-> Cardinality(sv.rapid),
     classical |-> Cardinality(sv.classical),
     total |-> SettingsTotal(sv)]

\* TwitchEvent::ChatCommand with VoteSetting: Engine::process_chat_command and
\* process_settings_vote
ExtChatSetting(user, mode, on) ==
    /\ pc = "fetch"
    /\ settings_votes' = SettingsAddVote(settings_votes, user, mode, on)
    /\ queue' = queue \o <<Ev("ChatCommand", NoId, ""), Ev("SettingsChanged", NoId, "")>>
    /\ pc' = "drain"
    /\ yielded' = FALSE
    /\ started' = NoId
    /\ commit' = NoCommit
    /\ UNCHANGED <<gmVars, game_votes, outbound, taskVars, envVars, last_processed,
                   voteHist, closed, issued, probe>>

\* the argument of a settings command, as chat may write it
SettingArgs == {"on", "off", "maybe"}

\* Command::from_str: the `on` of the VoteSetting it returns for the argument
ParseSettingArg(arg) ==
    IF arg = "on" THEN TRUE
    ELSE IF arg = "off" THEN FALSE
    ELSE FALSE

\* a chat line `!rapid <arg>` or `!classical <arg>`: Command::from_str, then
\* the dispatch of the ChatCommand it yields
ExtChatSettingText(user, mode, arg) == ExtChatSetting(user, mode, ParseSettingArg(arg))

\* nullify_challenge taking any challenge for the recorded one
IsOutboundAny(out, c) == out # NoId

\* nullify_challenge: an outbound challenge is recorded and has the event's id
IsOutbound(out, c) == out # NoId /\ out = c

\* ChallengeManager::nullify_challenge
NullifyChallenge(c, awaited) ==
    IF IsOutbound(outbound, c)
    THEN /\ cancel_tasks' = AbortCancelTask(cancel_tasks, outbound)
         /\ outbound' = NoId
         /\ Fetched(<<Ev("OutboundChallengeNullified", NoId, "")>>, awaited)
    ELSE /\ UNCHANGED <<cancel_tasks, outbound>>
         /\ Fetched(<<>>, awaited)

\* process_challenge_created keeping the challenge already recorded
RecordOutboundIfNone(out, c) == IF out = NoId THEN c ELSE out

\* process_challenge_created: self.outbound after the assignment
RecordOutbound(out, c) == c

\* AccountEvent::Challenge with status Created, the challenger being us:
\* ChallengeManager::process_challenge_created
ExtChallengeCreated(c) ==
    /\ pc = "fetch"
    /\ rchal[c] = "sent"
    /\ rchal' = [rchal EXCEPT ![c] = "open"]
    /\ cancel_tasks' = [cancel_tasks EXCEPT ![c] = "live"]
    /\ outbound' = RecordOutbound(outbound, c)
    /\ Fetched(<<>>, FALSE)
    /\ UNCHANGED <<gmVars, game_votes, vote_tasks, abort_tasks, rgame, rplies>>

\* AccountEvent::ChallengeCanceled / ChallengeDeclined, or Challenge with status
\* Offline / Canceled / Declined / Accepted
ExtChallengeStatus(c, status) ==
    /\ pc = "fetch"
    /\ IF status = "Canceled" THEN rchal[c] = "canceling" ELSE rchal[c] = "open"
    /\ rchal' = [rchal EXCEPT ![c] = "gone"]
    /\ NullifyChallenge(c, FALSE)
    /\ UNCHANGED <<gmVars, game_votes, vote_tasks, abort_tasks, rgame, rplies>>

\* ------------------------------------------------- Engine: internal events
\* EventQueue::next hands out the oldest event.
Dispatch(t) == pc = "drain" /\ queue # <<>> /\ Head(queue).t = t

\* the event is consumed, `out` is what its handler sent, `awaited` whether the
\* handler suspended at an await
DispatchedWith(out, awaited, made) ==
    /\ queue' = Tail(queue) \o out
    /\ last_processed' = Head(queue).t
    /\ yielded' = awaited
    /\ pc' = pc
    /\ started' = started
    /\ commit' = made
    /\ UNCHANGED <<settings_votes, probe>>

Dispatched(out, awaited) == DispatchedWith(out, awaited, NoCommit)

FindNewGameEv == Ev("FindNewGame", NoId, "")

\* find_new_game without its check
FindNewOpponentAlways(gs, cur) == TRUE

\* Engine::find_new_game: find_new_opponent is called only if current_game() is None
FindNewOpponentCalled(gs, cur) == ~CurrentGameIsSome(gs, cur)

\* Action::FindNewGame: Engine::find_new_game and Engine::find_new_opponent
DoFindNewGame ==
    /\ Dispatch("FindNewGame")
    /\ LET gs == GamesAfterCurrentGame(games, current_game_id)
           oldest == OldestGameId(gs)
           sw == SwitchGame(gs, current_game_id, oldest)
       IN  IF ~FindNewOpponentCalled(games, current_game_id)
           THEN /\ UNCHANGED <<games, current_game_id, outbound, cancel_tasks, issued>>
                /\ Dispatched(<<>>, FALSE)
           ELSE IF oldest # NoId
           THEN /\ games' = sw.games
                /\ current_game_id' = sw.cur
                /\ issued' = IF Adopts(sw) THEN {} ELSE issued
                /\ UNCHANGED <<outbound, cancel_tasks>>
                /\ Dispatched(sw.out, FALSE)
           ELSE /\ games' = gs
                /\ cancel_tasks' = AbortCancelTask(cancel_tasks, outbound)
                /\ outbound' = NoId
                /\ UNCHANGED <<current_game_id, issued>>
                /\ Dispatched(<<Ev("ChallengeRandomBot", NoId, "")>>, FALSE)
    /\ UNCHANGED <<last_finished_game, game_votes, vote_tasks, abort_tasks, envVars,
                   voteHist, closed>>

\* Action::SwitchGame
DoSwitchGame ==
    /\ Dispatch("SwitchGame")
    /\ LET sw == SwitchGame(games, current_game_id, Head(queue).g)
       IN  /\ games' = sw.games
           /\ current_game_id' = sw.cur
           /\ issued' = IF Adopts(sw) THEN {} ELSE issued
           /\ Dispatched(sw.out, FALSE)
    /\ UNCHANGED <<last_finished_game, game_votes, outbound, taskVars, envVars, voteHist,
                   closed>>

\* AccountAction::ChallengeRandomBot: Engine::challenge_random_bot. The bot list
\* may fail to load or hold no valid bot, and create_challenge may fail: each
\* re-enqueues the action. (The clock list always holds blitz, so it is never empty.)
ChallengeRandomBot(results) ==
    /\ Dispatch("ChallengeRandomBot")
    /\ \E result \in results :
         IF result = "created"
         THEN \E c \in ChallengeIds :
                /\ rchal[c] = "none"
                /\ \A d \in ChallengeIds : d < c => rchal[d] # "none"
                /\ rchal' = [rchal EXCEPT ![c] = "sent"]
                /\ issued' = issued \cup {c}
                /\ Dispatched(<<Ev("ChallengeSent", NoId, "")>>, TRUE)
         ELSE /\ UNCHANGED <<rchal, issued>>
              /\ Dispatched(<<Ev("ChallengeRandomBot", NoId, "")>>, TRUE)
    /\ UNCHANGED <<gmVars, game_votes, outbound, taskVars, rgame, rplies, voteHist, closed>>

\* what the remote calls of challenge_random_bot can come to
ChallengeResults == {"bots_error", "no_bots", "create_error", "created"}

\* the outcomes after which challenge_random_bot sends ChallengeRandomBot again
ChallengeFailures == {"bots_error", "no_bots", "create_error"}

\* AccountAction::CancelChallenge: the remote call; on success the service
\* cancels the challenge if it is still open
DoCancelChallengeWith(results) ==
    /\ Dispatch("CancelChallenge")
    /\ \E ok \in results :
         rchal' = IF ok /\ rchal[Head(queue).g] = "open"
                  THEN [rchal EXCEPT ![Head(queue).g] = "canceling"] ELSE rchal
    /\ Dispatched(<<>>, TRUE)
    /\ UNCHANGED <<gmVars, game_votes, outbound, taskVars, rgame, rplies, voteHist, closed, issued>>

DoCancelChallenge == DoCancelChallengeWith(BOOLEAN)

\* GameAction::Abort: the remote call
DoAbort ==
    /\ Dispatch("Abort")
    /\ Dispatched(<<>>, TRUE)
    /\ UNCHANGED <<gmVars, game_votes, outbound, taskVars, envVars, voteHist, closed, issued>>

\* make_move with no top vote: the moves MoveGen::new_legal yields on the stored
\* board, any of them
FallbackAnyMove(plies) == MoveVotes

\* make_move with no top vote: the moves MoveGen::new_legal yields on the stored
\* board, of which one is chosen at random
FallbackMoves(plies) == {m \in MoveVotes : Legal(plies, m)}

\* the remote call make_move makes for a vote other than Delay (None = fallback)
CallOf(vote) == IF vote \in {"draw", "resign"} THEN vote ELSE "move"

\* GameAction::Move: Engine::make_move
DoMove ==
    /\ Dispatch("Move")
    /\ LET g == Head(queue).g IN
       \E vote \in TopVoteResults(game_votes.votes) : \E ok \in BOOLEAN :
         IF vote = "none" /\ g \notin DOMAIN games
         THEN /\ UNCHANGED <<game_votes, vote_tasks, voteHist>>
              /\ DispatchedWith(<<>>, FALSE, Commit(g, vote, "none", "none", FALSE))
         ELSE IF vote = "delay"
         THEN /\ game_votes' = ScheduleActionVote(ResetVoting(AddDelay(game_votes)))
              /\ Len(Detach(vote_tasks)) < MaxVoteTasks
              /\ vote_tasks' = ScheduleTasks(ResetVoting(AddDelay(game_votes)),
                                             Detach(vote_tasks), g)
              /\ delay_wins' = delay_wins + 1
              /\ admitted' = NoneAdmitted
              /\ DispatchedWith(<<GameVotesChanged, GameVotesChanged>>, FALSE,
                                Commit(g, vote, "none", "none", FALSE))
         ELSE \* a random legal move, a draw offer, a resignation or the voted move
              \E uci \in (IF vote = "none" THEN FallbackMoves(games[g].plies)
                           ELSE IF vote \in MoveVotes THEN {vote} ELSE {"none"}) :
              IF ok
              THEN /\ game_votes' = Reset(game_votes)
                   /\ vote_tasks' = Detach(vote_tasks)
                   /\ delay_wins' = 0
                   /\ admitted' = NoneAdmitted
                   /\ DispatchedWith(<<GameVotesChanged>>, TRUE,
                                     Commit(g, vote, CallOf(vote), uci, TRUE))
              ELSE /\ UNCHANGED <<game_votes, vote_tasks, voteHist>>
                   /\ DispatchedWith(<<>>, TRUE, Commit(g, vote, CallOf(vote), uci, FALSE))
    /\ UNCHANGED <<gmVars, outbound, cancel_tasks, abort_tasks, envVars, closed, issued>>

\* Notification::VotingFinished
DoVotingFinished ==
    /\ Dispatch("VotingFinished")
    /\ \E vote \in TopVoteResults(game_votes.votes) :
         /\ game_votes' = IF vote = "delay" THEN Enable(game_votes) ELSE Disable(game_votes)
         /\ closed' = (closed \/ vote # "delay")
    /\ Dispatched(<<>>, FALSE)
    /\ UNCHANGED <<gmVars, outbound, taskVars, envVars, voteHist, issued>>

\* Notification::OutboundChallengeNullified
DoOutboundChallengeNullified ==
    /\ Dispatch("OutboundChallengeNullified")
    /\ games' = GamesAfterCurrentGame(games, current_game_id)
    /\ Dispatched(IF CurrentGameIsSome(games, current_game_id) THEN <<>>
                  ELSE <<FindNewGameEv>>, FALSE)
    /\ UNCHANGED <<current_game_id, last_finished_game, game_votes, outbound, taskVars,
                   envVars, voteHist, closed, issued>>

\* GameNotification::NewCurrentGame
DoNewCurrentGame ==
    /\ Dispatch("NewCurrentGame")
    /\ game_votes' = Reset(Enable(game_votes))
    /\ vote_tasks' = Detach(vote_tasks)
    /\ delay_wins' = 0
    /\ admitted' = NoneAdmitted
    /\ closed' = FALSE
    /\ games' = GamesAfterCurrentGame(games, current_game_id)
    /\ Dispatched(<<GameVotesChanged>>, FALSE)
    /\ UNCHANGED <<current_game_id, last_finished_game, outbound, cancel_tasks,
                   abort_tasks, envVars, issued>>

\* GameNotification::GameStarted
DoGameStarted ==
    /\ Dispatch("GameStarted")
    /\ LET g == Head(queue).g IN
       /\ cancel_tasks' = AbortCancelTask(cancel_tasks, outbound)
       /\ outbound' = NoId
       /\ games' = GamesAfterCurrentGame(games, current_game_id)
       /\ IF CurrentGameIsSome(games, current_game_id) /\ current_game_id = g
          THEN /\ UNCHANGED abort_tasks
               /\ Dispatched(<<>>, FALSE)
          ELSE /\ abort_tasks' = abort_tasks \cup {g}
               /\ Dispatched(<<Ev("SwitchGame", g, "")>>, FALSE)
    /\ UNCHANGED <<current_game_id, last_finished_game, game_votes, vote_tasks, envVars,
                   voteHist, closed, issued>>

\* GameAbortable aborting only a game that is still recorded, not finished and
\* without a move
AbortableSendsIfFresh(gs, g) ==
    IF g \in DOMAIN gs /\ ~gs[g].finished /\ gs[g].plies = 0
    THEN <<Ev("Abort", g, "")>> ELSE <<>>

\* what the GameAbortable handler sends: the abort, whatever the game's state
AbortableSends(gs, g) == <<Ev("Abort", g, "")>>

\* GameNotification::GameAbortable
DoGameAbortable ==
    /\ Dispatch("GameAbortable")
    /\ Dispatched(AbortableSends(games, Head(queue).g), FALSE)
    /\ UNCHANGED <<gmVars, game_votes, outbound, taskVars, envVars, voteHist, closed, issued>>

\* GameNotification::GameFinished
DoGameFinished ==
    /\ Dispatch("GameFinished")
    /\ games' = GamesAfterCurrentGame(games, current_game_id)
    /\ Dispatched(IF CurrentGameIsSome(games, current_game_id) THEN <<>>
                  ELSE <<FindNewGameEv>>, FALSE)
    /\ UNCHANGED <<current_game_id, last_finished_game, game_votes, outbound, taskVars,
                   envVars, voteHist, closed, issued>>

\* GameNotification::OurTurn
DoOurTurn ==
    /\ Dispatch("OurTurn")
    /\ games' = GamesAfterCurrentGame(games, current_game_id)
    /\ IF ~CurrentGameIsSome(games, current_game_id)
       THEN UNCHANGED <<game_votes, vote_tasks, closed>>
       ELSE IF current_game_id = Head(queue).g
       THEN /\ game_votes' = ScheduleActionVote(Enable(game_votes))
            /\ Len(IF game_votes.vote_timer THEN AbortHeld(vote_tasks) ELSE vote_tasks)
                 < MaxVoteTasks
            /\ vote_tasks' = ScheduleTasks(game_votes, vote_tasks, Head(queue).g)
            /\ closed' = FALSE
       ELSE /\ game_votes' = Enable(game_votes)
            /\ closed' = FALSE
            /\ UNCHANGED vote_tasks
    /\ Dispatched(<<>>, FALSE)
    /\ UNCHANGED <<current_game_id, last_finished_game, outbound, cancel_tasks,
                   abort_tasks, envVars, voteHist, issued>>

\* GameNotification::PlayerMoved
DoPlayerMoved ==
    /\ Dispatch("PlayerMoved")
    /\ games' = GamesAfterCurrentGame(games, current_game_id)
    /\ Dispatched(<<>>, FALSE)
    /\ UNCHANGED <<current_game_id, last_finished_game, game_votes, outbound, taskVars,
                   envVars, voteHist, closed, issued>>

\* Notification::SettingsChanged: settings() is forwarded to the presentation sink
DoSettingsChanged ==
    /\ Dispatch("SettingsChanged")
    /\ Dispatched(<<>>, FALSE)
    /\ UNCHANGED <<gmVars, game_votes, outbound, taskVars, envVars, voteHist, closed, issued>>

\* events whose handling only forwards to the presentation sink
StreamOnly == {"ChatCommand", "GameVotesChanged", "ChallengeSent", "TheirTurn", "PlayClip"}

DoStreamOnly ==
    /\ pc = "drain" /\ queue # <<>> /\ Head(queue).t \in StreamOnly
    /\ Dispatched(<<>>, FALSE)
    /\ UNCHANGED <<gmVars, game_votes, outbound, taskVars, envVars, voteHist, closed, issued>>

\* --------------------------------------------------------- spawned tasks
\* A spawned task runs while the engine sleeps in an idle cycle or is suspended
\* in a handler; what it sends is dispatched by the drain that follows.
TaskCanRun == (pc = "fetch" \/ yielded) /\ Len(queue) < MaxQueue

TaskRan(out) ==
    /\ queue' = queue \o out
    /\ pc' = "drain"
    /\ yielded' = TRUE
    /\ started' = IF pc = "fetch" THEN NoId ELSE started
    /\ commit' = NoCommit
    /\ UNCHANGED <<gmVars, game_votes, outbound, envVars, last_processed, voteHist, closed,
                   issued, settings_votes, probe>>

RemoveAt(seq, i) == SubSeq(seq, 1, i - 1) \o SubSeq(seq, i + 1, Len(seq))

\* the commit task of schedule_action_vote: one of its interval ticks but the last
VoteTick(i) ==
    /\ TaskCanRun
    /\ i \in DOMAIN vote_tasks
    /\ vote_tasks[i].left > 1
    /\ vote_tasks' = [vote_tasks EXCEPT ![i].left = @ - 1]
    /\ TaskRan(<<GameVotesChanged>>)
    /\ UNCHANGED <<cancel_tasks, abort_tasks>>

\* the commit task sending the Move ahead of VotingFinished
CommitTaskSendsMoveFirst(g) ==
    <<GameVotesChanged, Ev("Move", g, ""), Ev("VotingFinished", NoId, "")>>

\* what the commit task sends on and after its last tick: it does not suspend
\* between the three sends
CommitTaskSends(g) ==
    <<GameVotesChanged, Ev("VotingFinished", NoId, ""), Ev("Move", g, "")>>

\* the commit task's last tick, after which it sends VotingFinished and the Move
\* action
VoteExpire(i) ==
    /\ TaskCanRun
    /\ i \in DOMAIN vote_tasks
    /\ vote_tasks[i].left = 1
    /\ vote_tasks' = RemoveAt(vote_tasks, i)
    /\ TaskRan(CommitTaskSends(vote_tasks[i].game))
    /\ UNCHANGED <<cancel_tasks, abort_tasks>>

\* the cancel-task ending without a send
CancelTaskSendsNothing(c) == <<>>

\* what the cancel-task sends once it has slept
CancelTaskSends(c) == <<Ev("CancelChallenge", c, "")>>

\* the cancel-task of process_challenge_created, MAX_OUTBOUND_CHALLENGE_WAIT_TIME on
CancelTaskFire(c) ==
    /\ TaskCanRun
    /\ cancel_tasks[c] = "live"
    /\ cancel_tasks' = [cancel_tasks EXCEPT ![c] = "fired"]
    /\ TaskRan(CancelTaskSends(c))
    /\ UNCHANGED <<vote_tasks, abort_tasks>>

\* the task spawned on GameStarted, 30 s on
AbortTaskFire(g) ==
    /\ TaskCanRun
    /\ g \in abort_tasks
    /\ abort_tasks' = abort_tasks \ {g}
    /\ TaskRan(<<Ev("GameAbortable", g, "")>>)
    /\ UNCHANGED <<vote_tasks, cancel_tasks>>

\* ------------------------------------------------------- Engine::process
\* no external event and nothing a task sent: the engine sleeps, then drains
Idle ==
    /\ pc = "fetch"
    /\ queue # <<>>
    /\ pc' = "drain"
    /\ yielded' = TRUE
    /\ commit' = NoCommit
    /\ UNCHANGED <<gmVars, game_votes, outbound, queue, taskVars, envVars,
                   last_processed, voteHist, closed, issued, started, settings_votes,
                   probe>>

\* the cycle ending after any dispatch, whether or not events are left
DrainStops ==
    /\ pc = "drain"
    /\ pc' = "fetch"
    /\ yielded' = FALSE
    /\ commit' = NoCommit
    /\ UNCHANGED <<gmVars, game_votes, outbound, queue, taskVars, envVars,
                   last_processed, voteHist, closed, issued, started, settings_votes,
                   probe>>

\* EventQueue::next returned None: the cycle ends
DrainDone ==
    /\ pc = "drain"
    /\ queue = <<>>
    /\ pc' = "fetch"
    /\ yielded' = FALSE
    /\ commit' = NoCommit
    /\ UNCHANGED <<gmVars, game_votes, outbound, queue, taskVars, envVars,
                   last_processed, voteHist, closed, issued, started, settings_votes,
                   probe>>

\* ------------------------------------------------- Game's board, on its own
\* A chess::Board is kept as the position it was set up from and the moves made
\* on it since; Board::default() is the standard start position.
BoardDefault == [start |-> "startpos", moves |-> <<>>]

\* GameFull.initial_fen: absent, "startpos", the FEN of another position, or a
\* string that is no FEN
ApiFens == {"absent", "startpos", "custom", "garbage"}

\* the pieces moves.split(" ") yields: moves in UCI form ("d8h4" standing for a
\* move that ends the game on the board), the empty piece, and a piece that is
\* no move
UciTokens == {"e2e4", "e7e5", "d8h4", "", "zz"}

\* ChessMove::from_str(..).ok() is Some
ParsesAsMove(tok) == tok \in {"e2e4", "e7e5", "d8h4"}

\* board_from_api_fen: Board::from_str(&fen).unwrap_or_default()
BoardFromApiFen(fen) ==
    IF fen = "custom" THEN [start |-> "custom", moves |-> <<>>] ELSE BoardDefault

\* Board::status
BoardStatus(board) ==
    IF board.moves # <<>> /\ board.moves[Len(board.moves)] = "d8h4"
    THEN "Checkmate" ELSE "Ongoing"

\* Board::make_move
MakeMove(board, m) == [board EXCEPT !.moves = Append(@, m)]

\* the loop of board_from_moves, from the board it has arrived at: None once a
\* move follows the end of the game
RECURSIVE ReplayFrom(_, _)
ReplayFrom(board, moves) ==
    IF moves = <<>> THEN [some |-> TRUE, board |-> board]
    ELSE IF Head(moves) = "" THEN ReplayFrom(board, Tail(moves))
    ELSE IF BoardStatus(board) = "Ongoing"
    THEN ReplayFrom(IF ParsesAsMove(Head(moves)) THEN MakeMove(board, Head(moves))
                    ELSE board, Tail(moves))
    ELSE [some |-> FALSE, board |-> board]

\* board_from_moves: the replay starts from Board::default()
BoardFromMoves(moves) == ReplayFrom(BoardDefault, moves)

\* the move lists of a payload
RECURSIVE MoveListsOf(_)
MoveListsOf(n) ==
    IF n = 0 THEN {<<>>}
    ELSE LET shorter == MoveListsOf(n - 1)
         IN  shorter \cup {Append(l, tok) : l \in shorter, tok \in UciTokens}

MoveLists == MoveListsOf(MaxMoveList)

\* Game::from_game_full: board and move_history of the game it builds. `ok` is
\* whether board_from_moves returned a board.
FromGameFullBoard(fen, has_state, moves) ==
    LET replay == BoardFromMoves(moves)
    IN  [op |-> "game", initial_fen |-> fen,
         board |-> IF has_state /\ replay.some THEN replay.board ELSE BoardFromApiFen(fen),
         move_history |-> IF has_state THEN moves ELSE <<>>,
         ok |-> (has_state => replay.some)]

\* Game::process_game_state: board and move_history after the call. When
\* board_from_moves returns None the call logs a warning and returns.
ProcessGameStateBoard(game, moves) ==
    LET replay == BoardFromMoves(moves)
    IN  [game EXCEPT !.move_history = moves,
                     !.board = IF replay.some THEN replay.board ELSE @,
                     !.ok = replay.some]

\* GameEvent::GameFull: process_game_full replaces the game by from_game_full's
GameFullApplied(fen, has_state, moves) ==
    /\ probe.op \in {"none", "game"}
    /\ probe' = FromGameFullBoard(fen, has_state, moves)
    /\ UNCHANGED engineVars

\* GameEvent::GameState on the game built before
GameStateApplied(moves) ==
    /\ probe.op = "game"
    /\ probe' = ProcessGameStateBoard(probe, moves)
    /\ UNCHANGED engineVars

\* ------------------------------------------------------ Timer, on its own
\* Timer::new. (No product or difference of elapse leaves u64: the timer's
\* milliseconds never exceed the u64 it was built from, and the difference is
\* taken only when it is positive.)
TimerNew(milliseconds) ==
    [minutes |-> milliseconds \div (60 * 1000),
     seconds |-> (milliseconds % (60 * 1000)) \div 1000]

\* Timer::as_millis
AsMillis(t) == (t.minutes * 60 * 1000) + (t.seconds * 1000)

\* elapse taking the distance of the two times
TimerElapseDistance(t, milliseconds) ==
    LET total == AsMillis(t)
    IN  TimerNew(IF milliseconds < total THEN total - milliseconds
                 ELSE milliseconds - total)

\* Timer::elapse
TimerElapse(t, milliseconds) ==
    LET total == AsMillis(t)
    IN  IF milliseconds < total THEN TimerNew(total - milliseconds) ELSE TimerNew(0)

\* clock times and durations in milliseconds
Millis ==
    {m * 60000 + sec * 1000 + r : m \in 0..MaxMinutes, sec \in {0, 1, 59}, r \in {0, 1, 999}}

\* a Timer is built from a clock time
TimerBuilt(milliseconds) ==
    /\ probe.op = "none"
    /\ probe' = [op |-> "timer", timer |-> TimerNew(milliseconds),
                 before |-> TimerNew(milliseconds), d |-> 0]
    /\ UNCHANGED engineVars

\* Timer::elapse on the timer built before
TimerElapsed(milliseconds) ==
    /\ probe.op \in {"timer", "elapse"}
    /\ probe' = [op |-> "elapse", timer |-> TimerElapse(probe.timer, milliseconds),
                 before |-> probe.timer, d |-> milliseconds]
    /\ UNCHANGED engineVars

\* ------------------------------------------------ the commit task, on its own
\* The task of schedule_action_vote with its clock: tokio::time::interval
\* completes its first tick at once and every further tick one period after the
\* tick before it, so `elapsed` is the least number of seconds the task has run.
CommitTaskSpawned(speed) ==
    /\ probe.op = "none"
    /\ probe' = [op |-> "interval", duration |-> SpeedTable(speed)[2], ticks |-> 0,
                 elapsed |-> 0, finished |-> FALSE]
    /\ UNCHANGED engineVars

\* interval.tick().await, then GameVotesChanged
CommitTaskTicked ==
    /\ probe.op = "interval"
    /\ probe.ticks < probe.duration
    /\ probe' = [probe EXCEPT !.ticks = @ + 1,
                              !.elapsed = IF probe.ticks = 0 THEN @ ELSE @ + 1]
    /\ UNCHANGED engineVars

\* the loop has ended: VotingFinished and the Move action are sent
CommitTaskFinished ==
    /\ probe.op = "interval"
    /\ probe.ticks = probe.duration
    /\ ~probe.finished
    /\ probe' = [probe EXCEPT !.finished = TRUE]
    /\ UNCHANGED engineVars

\* ------------------------------------------------------- the environment
\* the external events, over the games, challenges, users and chat texts given
GameStartEvent(G, S, C) == \E g \in G, speed \in S, color \in C : ExtGameStart(g, speed, color)

GameStartAgainEvent(G, S, C) ==
    \E g \in G, speed \in S, color \in C, is_my_turn \in BOOLEAN :
       ExtGameStartAgain(g, speed, color, is_my_turn)

GameFinishEvent(G) == \E g \in G, is_my_turn \in BOOLEAN : ExtGameFinish(g, is_my_turn)

GameFullEvent(G) == \E g \in G : ExtGameFull(g)

GameStateEvent(G) ==
    \E g \in G, moved \in BOOLEAN, status \in {"started", "mate"},
       winner \in {"none", "white"} : ExtGameState(g, moved, status, winner)

\* a GameState that ends the game without a further move
GameOverEvent(G) ==
    \E g \in G, winner \in {"none", "white"} : ExtGameState(g, FALSE, "mate", winner)

GameFullPayload ==
    \E fen \in ApiFens, has_state \in BOOLEAN, moves \in MoveLists :
       GameFullApplied(fen, has_state, moves)

GameStatePayload == \E moves \in MoveLists : GameStateApplied(moves)

TimerBuiltFrom == \E milliseconds \in Millis : TimerBuilt(milliseconds)

TimerElapsedBy == \E milliseconds \in Millis : TimerElapsed(milliseconds)

CommitTaskSpawnedFor == \E speed \in Speeds : CommitTaskSpawned(speed)

OpponentGoneEvent(G) == \E g \in G : ExtOpponentGone(g)

ChatVoteEvent(U, T) == \E user \in U, text \in T : ExtChatVote(user, text)

ChatSettingEvent(U) ==
    \E user \in U, mode \in GameModes, on \in BOOLEAN : ExtChatSetting(user, mode, on)

ChatSettingTextEvent(U) ==
    \E user \in U, mode \in {"rapid", "classical"}, arg \in SettingArgs :
       ExtChatSettingText(user, mode, arg)

ChallengeCreatedEvent == \E c \in ChallengeIds : ExtChallengeCreated(c)

ChallengeStatusEvent ==
    \E c \in ChallengeIds, status \in {"Offline", "Canceled", "Declined", "Accepted"} :
       ExtChallengeStatus(c, status)

ChallengeAcceptedEvent == \E c \in ChallengeIds : ExtChallengeStatus(c, "Accepted")

VoteTickTask == \E i \in 1..MaxVoteTasks : VoteTick(i)

VoteExpireTask == \E i \in 1..MaxVoteTasks : VoteExpire(i)

CancelTask == \E c \in ChallengeIds : CancelTaskFire(c)

AbortTask == \E g \in GameIds : AbortTaskFire(g)

\* Engine::process_external_event: any event of the service or of chat
ExternalEvent ==
    \/ GameStartEvent(GameIds, GameSpeeds, Colors)
    \/ GameStartAgainEvent(GameIds, GameSpeeds, Colors)
    \/ GameFinishEvent(GameIds)
    \/ GameFullEvent(GameIds)
    \/ GameStateEvent(GameIds)
    \/ OpponentGoneEvent(GameIds)
    \/ ChatVoteEvent(Users, ChatTexts)
    \/ ChatSettingEvent(Users)
    \/ ChatSettingTextEvent(Users)
    \/ ChallengeCreatedEvent
    \/ ChallengeStatusEvent

\* the handlers of the game lifecycle, the remote calls of challenge_random_bot
\* coming to one of `results`
GameStepWith(results) ==
    \/ DoFindNewGame
    \/ DoSwitchGame
    \/ ChallengeRandomBot(results)
    \/ DoAbort
    \/ DoNewCurrentGame
    \/ DoGameStarted
    \/ DoGameAbortable
    \/ DoGameFinished
    \/ DoOurTurn
    \/ DoPlayerMoved
    \/ DoStreamOnly
    \/ Idle
    \/ DrainDone

GameStep == GameStepWith(ChallengeResults)

\* the handlers of the challenge lifecycle
ChallengeStep ==
    \/ DoCancelChallenge
    \/ DoOutboundChallengeNullified

\* the handlers of the vote window
VoteStep ==
    \/ DoMove
    \/ DoVotingFinished

\* Every event of the service and of chat, every handler and every task.
Next ==
    \/ GameStartEvent(GameIds, GameSpeeds, Colors)
    \/ GameStartAgainEvent(GameIds, GameSpeeds, Colors)
    \/ GameFinishEvent(GameIds)
    \/ GameFullEvent(GameIds)
    \/ GameStateEvent(GameIds)
    \/ OpponentGoneEvent(GameIds)
    \/ ChatVoteEvent(Users, ChatTexts)
    \/ ChatSettingEvent(Users)
    \/ ChatSettingTextEvent(Users)
    \/ DoSettingsChanged
    \/ ChallengeCreatedEvent
    \/ ChallengeStatusEvent
    \/ GameStep
    \/ ChallengeStep
    \/ VoteStep
    \/ VoteTickTask
    \/ VoteExpireTask
    \/ CancelTask
    \/ AbortTask
    \/ GameFullPayload
    \/ GameStatePayload
    \/ TimerBuiltFrom
    \/ TimerElapsedBy
    \/ CommitTaskSpawnedFor
    \/ CommitTaskTicked
    \/ CommitTaskFinished

Spec == Init /\ [][Next]_vars

\* The game lifecycle on its own: chat is silent, no vote window runs out and
\* the service reports nothing about our challenges.
GameNext ==
    \/ GameStartEvent(GameIds, GameSpeeds, Colors)
    \/ GameFinishEvent(GameIds)
    \/ GameFullEvent(GameIds)
    \/ GameStateEvent(GameIds)
    \/ GameStep
    \/ AbortTask

GameSpec == Init /\ [][GameNext]_vars

\* The challenge lifecycle around a single game.
ChallengeNext ==
    \/ GameStartEvent(1..SingleGame, GameSpeeds, Colors)
    \/ GameFinishEvent(1..SingleGame)
    \/ GameFullEvent(1..SingleGame)
    \/ GameStateEvent(1..SingleGame)
    \/ ChallengeCreatedEvent
    \/ ChallengeStatusEvent
    \/ GameStep
    \/ ChallengeStep
    \/ CancelTask
    \/ AbortTask

ChallengeSpec == Init /\ [][ChallengeNext]_vars

\* The vote window of a single Blitz game: chat votes, the commit task's ticks
\* and expiry, and the service's updates of the game.
VoteNext ==
    \/ GameStartEvent(1..SingleGame, {"Blitz"}, Colors)
    \/ GameFinishEvent(1..SingleGame)
    \/ GameFullEvent(1..SingleGame)
    \/ GameStateEvent(1..SingleGame)
    \/ ChatVoteEvent(1..SingleUser, {"delay", "e2e4", "zz"})
    \/ GameStep
    \/ VoteStep
    \/ VoteTickTask
    \/ VoteExpireTask
    \/ AbortTask

VoteSpec == Init /\ [][VoteNext]_vars

\* the handlers that can run while no move is played and no abort timer has
\* run out yet
StaleStep ==
    \/ DoFindNewGame
    \/ DoSwitchGame
    \/ ChallengeRandomBot(ChallengeResults)
    \/ DoNewCurrentGame
    \/ DoGameStarted
    \/ DoGameFinished
    \/ DoOurTurn
    \/ DoStreamOnly
    \/ Idle
    \/ DrainDone

\* Two games one after the other, both Blitz and ours to open, with two chat
\* users voting: a commit task can outlive the game it was spawned for.  The
\* games end before a move is played and before their abort timers run out.
StaleNext ==
    \/ GameStartEvent(GameIds, {"Blitz"}, {"white"})
    \/ GameFullEvent(GameIds)
    \/ GameOverEvent(GameIds)
    \/ ChatVoteEvent({1}, {"delay"})
    \/ ChatVoteEvent({2}, {"e2e4"})
    \/ StaleStep
    \/ VoteStep
    \/ VoteTickTask
    \/ VoteExpireTask

StaleSpec == Init /\ [][StaleNext]_vars

\* the handlers that can run while the one game goes on with no move played
TallyStep ==
    \/ DoFindNewGame
    \/ DoSwitchGame
    \/ ChallengeRandomBot(ChallengeResults)
    \/ DoNewCurrentGame
    \/ DoGameStarted
    \/ DoOurTurn
    \/ DoStreamOnly
    \/ Idle
    \/ DrainDone

\* The tally of one vote window: a Blitz game of ours to open, every chat user
\* voting for the move or for a draw offer, and the window's commit task.
TallyNext ==
    \/ GameStartEvent(1..SingleGame, {"Blitz"}, {"white"})
    \/ GameFullEvent(1..SingleGame)
    \/ ChatVoteEvent(Users, {"e2e4", "draw"})
    \/ TallyStep
    \/ VoteStep
    \/ VoteTickTask
    \/ VoteExpireTask

TallySpec == Init /\ [][TallyNext]_vars

\* The game lifecycle with a service that may send the GameStart of a game that
\* goes on once more.
RestartNext ==
    \/ GameStartEvent(GameIds, {"Blitz"}, Colors)
    \/ GameStartAgainEvent(GameIds, {"Blitz"}, Colors)
    \/ GameFinishEvent(GameIds)
    \/ GameFullEvent(GameIds)
    \/ GameStateEvent(GameIds)
    \/ GameStep
    \/ AbortTask

RestartSpec == Init /\ [][RestartNext]_vars

\* The settings votes of chat while the engine looks for an opponent.
SettingsNext ==
    \/ ChatSettingEvent(Users)
    \/ ChatSettingTextEvent(Users)
    \/ DoSettingsChanged
    \/ DoFindNewGame
    \/ ChallengeRandomBot(ChallengeResults)
    \/ DoStreamOnly
    \/ Idle
    \/ DrainDone

SettingsSpec == Init /\ [][SettingsNext]_vars

\* One game whose events the service delivers in the end, the engine never
\* stopping and every challenge it sends being created.
FairNext ==
    \/ GameStartEvent(1..SingleGame, GameSpeeds, Colors)
    \/ GameFinishEvent(1..SingleGame)
    \/ GameFullEvent(1..SingleGame)
    \/ GameStateEvent(1..SingleGame)
    \/ GameStepWith({"created"})
    \/ AbortTask

FairSpec ==
    /\ Init
    /\ [][FairNext]_vars
    /\ WF_vars(GameStepWith({"created"}))
    /\ WF_vars(GameFinishEvent(1..SingleGame))
    /\ WF_vars(GameFullEvent(1..SingleGame))
    /\ WF_vars(GameOverEvent(1..SingleGame))

\* the engine's steps when every challenge it sends is created and every cancel
\* call is accepted by the service
TimeoutStep ==
    \/ GameStepWith({"created"})
    \/ DoCancelChallengeWith({TRUE})
    \/ DoOutboundChallengeNullified

\* The challenge lifecycle around a single game, the engine never stopping, the
\* cancel-tasks running out and the service delivering what it has to say about
\* our challenges.
TimeoutNext ==
    \/ GameStartEvent(1..SingleGame, GameSpeeds, Colors)
    \/ GameFinishEvent(1..SingleGame)
    \/ GameFullEvent(1..SingleGame)
    \/ GameStateEvent(1..SingleGame)
    \/ ChallengeCreatedEvent
    \/ ChallengeStatusEvent
    \/ TimeoutStep
    \/ CancelTask
    \/ AbortTask

TimeoutSpec ==
    /\ Init
    /\ [][TimeoutNext]_vars
    /\ WF_vars(TimeoutStep)
    /\ SF_vars(ChallengeCreatedEvent)
    /\ SF_vars(ChallengeStatusEvent)
    /\ SF_vars(CancelTask)

\* A single game whose opponent may leave while the game goes on.
GoneNext ==
    \/ GameStartEvent(1..SingleGame, GameSpeeds, Colors)
    \/ GameFinishEvent(1..SingleGame)
    \/ GameFullEvent(1..SingleGame)
    \/ GameStateEvent(1..SingleGame)
    \/ OpponentGoneEvent(1..SingleGame)
    \/ GameStep
    \/ AbortTask

GoneSpec == Init /\ [][GoneNext]_vars

\* A Game on its own: built from a GameFull payload, updated by GameState
\* payloads.
BoardNext ==
    \/ GameFullPayload
    \/ GameStatePayload

BoardSpec == Init /\ [][BoardNext]_vars

\* A Timer on its own: built from a clock time, then elapsed again and again.
TimerNext ==
    \/ TimerBuiltFrom
    \/ TimerElapsedBy

TimerSpec == Init /\ [][TimerNext]_vars

\* A commit task on its own, for the tracker of each speed.
IntervalNext ==
    \/ CommitTaskSpawnedFor
    \/ CommitTaskTicked
    \/ CommitTaskFinished

IntervalSpec == Init /\ [][IntervalNext]_vars

\* The challenge lifecycle around all the games, none of which is opened: no
\* board is streamed and no turn is announced.
FindNext ==
    \/ GameStartEvent(GameIds, {"Blitz"}, {"white"})
    \/ GameFinishEvent(GameIds)
    \/ ChallengeCreatedEvent
    \/ ChallengeStatusEvent
    \/ DoFindNewGame
    \/ DoSwitchGame
    \/ ChallengeRandomBot(ChallengeResults)
    \/ DoAbort
    \/ DoNewCurrentGame
    \/ DoGameStarted
    \/ DoGameAbortable
    \/ DoStreamOnly
    \/ ChallengeStep
    \/ Idle
    \/ DrainDone
    \/ CancelTask
    \/ AbortTask

FindSpec == Init /\ [][FindNext]_vars

\* Our challenges, each of which the opponent accepts if it answers at all, and
\* the game that follows.
AcceptNext ==
    \/ GameStartEvent(1..SingleGame, {"Blitz"}, {"white"})
    \/ ChallengeCreatedEvent
    \/ ChallengeAcceptedEvent
    \/ DoFindNewGame
    \/ DoSwitchGame
    \/ ChallengeRandomBot(ChallengeResults)
    \/ DoAbort
    \/ DoNewCurrentGame
    \/ DoGameStarted
    \/ DoGameAbortable
    \/ DoStreamOnly
    \/ ChallengeStep
    \/ Idle
    \/ DrainDone
    \/ CancelTask
    \/ AbortTask

AcceptSpec == Init /\ [][AcceptNext]_vars

\* the engine's steps when every call of challenge_random_bot fails. (The first
\* game to start is then adopted by the FindNewGame of Engine::new, so that no
\* SwitchGame is sent and no abort-task is spawned.)
RetryStep ==
    \/ DoFindNewGame
    \/ ChallengeRandomBot(ChallengeFailures)
    \/ DoNewCurrentGame
    \/ DoGameStarted
    \/ DoGameFinished
    \/ DoOurTurn
    \/ DoPlayerMoved
    \/ DoStreamOnly
    \/ Idle
    \/ DrainDone

\* One game, the engine never stopping, and a service at which no challenge can
\* be created.
RetryNext ==
    \/ GameStartEvent(1..SingleGame, GameSpeeds, Colors)
    \/ GameFinishEvent(1..SingleGame)
    \/ GameFullEvent(1..SingleGame)
    \/ GameStateEvent(1..SingleGame)
    \/ RetryStep

RetrySpec ==
    /\ Init
    /\ [][RetryNext]_vars
    /\ WF_vars(RetryStep)

\* ------------------------------------------------------------- properties
\* a quiescent point of the engine loop: the internal queue is drained
Quiescent == pc = "fetch" /\ queue = <<>>

\* current_game_id names an entry of games that is not finished
LiveCurrent ==
    /\ current_game_id # NoId
    /\ current_game_id \in DOMAIN games
    /\ ~games[current_game_id].finished

\* C1: at every quiescent point, if current_game_id is Some(id) then games holds
\* an entry for id and that game is not finished.
C1_CurrentGameIsLive == Quiescent /\ current_game_id # NoId => LiveCurrent

\* C2: a game that is current when it is marked finished leads to
\* current_game_id being None with that game stored in last_finished_game.
C2_FinishedCurrentGameIsArchived ==
    \A g \in GameIds :
        (current_game_id = g /\ g \in DOMAIN games /\ games[g].finished)
            ~> (/\ current_game_id = NoId
                /\ last_finished_game # <<>>
                /\ last_finished_game[1].id = g)

\* C3: a GameStart for G dispatched while current_game() is None leaves G in
\* games and the current game once the drain that follows has ended.
C3_StartedGameBecomesCurrent ==
    Quiescent /\ started # NoId => started \in DOMAIN games /\ current_game_id = started

\* C4: of the challenges created within one game-less period at most one is
\* pending at the service.
C4_OneChallengePerPeriod ==
    Cardinality({c \in issued : rchal[c] \in {"sent", "open"}}) <= 1

\* C5: FindNewGame processed while a current unfinished game exists leaves games,
\* current_game_id and the outbound challenge as they are and enqueues nothing.
C5_FindNewGameIsNoOp ==
    [][DoFindNewGame /\ LiveCurrent =>
         /\ UNCHANGED <<games, current_game_id, outbound>>
         /\ queue' = Tail(queue)]_vars

\* FindNewGame was the event dispatched last, a live current game exists and
\* nothing was enqueued
C5_Witness ==
    /\ pc = "drain"
    /\ last_processed = "FindNewGame"
    /\ LiveCurrent
    /\ queue = <<>>

\* C6: after a VotingFinished whose winner is not Delay, no chat vote changes the
\* votes map until OurTurn or NewCurrentGame enables the tracker again.
C6_ClosedWindowAdmitsNoVote ==
    [][closed /\ pc = "fetch" => game_votes'.votes = game_votes.votes]_vars

\* C7: every Move in the queue stands right behind a VotingFinished, and a Move
\* at the head is dispatched right after a VotingFinished.
C7_VotingFinishedBeforeMove ==
    \A i \in DOMAIN queue :
        queue[i].t = "Move" =>
            IF i = 1 THEN last_processed = "VotingFinished"
            ELSE queue[i - 1].t = "VotingFinished"

\* the Move of an expired window has been dispatched
C7_Witness == pc = "drain" /\ last_processed = "Move"

\* C8: between two reset() calls the Delay wins accepted by make_move never
\* exceed delays.max.
C8_DelayCap == delay_wins <= game_votes.delays.max

\* the cap is reached
C8_Witness == delay_wins > 0 /\ delay_wins = game_votes.delays.max

\* C9: a user whose last admitted vote is V has the entry V in the votes map and
\* is counted once for V by the game_votes totals and by get_top_vote's count.
C9_UserCountedOnce ==
    \A u \in Users :
        admitted[u] # "none" =>
            LET voters == Cardinality({w \in Users : admitted[w] = admitted[u]})
            IN  /\ u \in DOMAIN game_votes.votes
                /\ game_votes.votes[u] = admitted[u]
                /\ TotalVotes(game_votes.votes, admitted[u]) = voters
                /\ VoteCount(game_votes.votes, admitted[u]) = voters

\* C10: once a game of speed S is the current game, vote_duration and
\* delays.max are the table's entries for S.
C10_TrackerMatchesGameSpeed ==
    Quiescent /\ LiveCurrent =>
        /\ game_votes.delays.max = SpeedTable(games[current_game_id].speed)[1]
        /\ game_votes.vote_duration = SpeedTable(games[current_game_id].speed)[2]

\* make_move made the remote call for a winning Draw, Resign or Move vote
VoteCommitted == commit.call \in {"move", "draw", "resign"} /\ commit.vote # "none"

\* C11: once the remote call that commits a winning Draw, Resign or Move vote has
\* failed, the tracker admits votes and a further commit of that game is on its
\* way: a commit task of the game is live or its Move action is queued.
C11_FailedCommitIsRetried ==
    VoteCommitted /\ ~commit.ok =>
        /\ game_votes.enabled
        /\ \/ \E i \in DOMAIN vote_tasks : vote_tasks[i].game = commit.g
           \/ \E i \in DOMAIN queue : queue[i].t = "Move" /\ queue[i].g = commit.g

\* C12: a Move action that commits a winning Draw, Resign or Move vote clears the
\* votes and delays.current if the remote call succeeded, and leaves both as they
\* were (the votes not empty) if it failed.
C12_ClearedIffSucceeded ==
    [][DoMove /\ commit'.call # "none" /\ commit'.vote # "none" =>
         IF commit'.ok
         THEN /\ game_votes'.votes = EmptyMap
              /\ game_votes'.delays.current = 0
         ELSE /\ game_votes'.votes = game_votes.votes
              /\ game_votes'.votes # EmptyMap
              /\ game_votes'.delays.current = game_votes.delays.current]_vars

\* a voted move failed to commit after a Delay had won: votes and delay are kept
C12_Witness ==
    /\ VoteCommitted
    /\ ~commit.ok
    /\ game_votes.delays.current > 0
    /\ game_votes.votes # EmptyMap

\* C13: a Move action whose winning vote is Delay makes no remote call, adds one
\* to delays.current, clears the votes and schedules exactly one new commit task,
\* for the same game.
C13_DelayCommit ==
    [][DoMove /\ commit'.vote = "delay" =>
         /\ commit'.call = "none"
         /\ game_votes'.delays.current = game_votes.delays.current + 1
         /\ game_votes'.votes = EmptyMap
         /\ vote_tasks' = Append(Detach(vote_tasks),
                                 [game |-> commit'.g, left |-> game_votes.vote_duration,
                                  held |-> TRUE])]_vars

\* Delay has won for the second time in a row
C13_Witness ==
    /\ commit.vote = "delay"
    /\ game_votes.delays.current = 2
    /\ vote_tasks # <<>>

\* C14: a Move action for a stored game G dispatched while no vote is recorded
\* sends one move, legal on G's stored board, and resets the tracker if and only
\* if the call succeeded.
C14_FallbackMove ==
    [][DoMove /\ game_votes.votes = EmptyMap /\ Head(queue).g \in DOMAIN games =>
         /\ commit'.call = "move"
         /\ Legal(games[Head(queue).g].plies, commit'.uci)
         /\ game_votes' = IF commit'.ok THEN Reset(game_votes) ELSE game_votes]_vars

\* the fallback move was sent at the expiry of a window in which the delay cap
\* was reached
C14_Witness ==
    /\ commit.vote = "none"
    /\ commit.call = "move"
    /\ ~commit.ok
    /\ game_votes.delays.current = game_votes.delays.max

\* C15: get_top_vote returns None exactly when no vote is recorded, and otherwise
\* a recorded vote that no other recorded vote has more distinct voters than.
C15_TopVoteIsArgmax ==
    [][DoMove =>
         LET votes == game_votes.votes
             top == commit'.vote
         IN  /\ (top = "none") <=> (votes = EmptyMap)
             /\ top # "none" =>
                    /\ top \in Range(votes)
                    /\ \A w \in Range(votes) :
                          TotalVotes(votes, w) <= TotalVotes(votes, top)]_vars

\* two users voted e2e4 and a third a draw offer: the move was the top vote
C15_Witness ==
    /\ commit.call = "move"
    /\ commit.vote = "e2e4"
    /\ ~commit.ok
    /\ TotalVotes(game_votes.votes, "e2e4") = 2
    /\ TotalVotes(game_votes.votes, "draw") = 1

Nullified == Ev("OutboundChallengeNullified", NoId, "")

\* a Canceled, Declined, Offline or Accepted status of challenge c is processed
StatusProcessed(c) ==
    \E status \in {"Offline", "Canceled", "Declined", "Accepted"} : ExtChallengeStatus(c, status)

\* C17: a status event for the recorded outbound challenge sends one
\* OutboundChallengeNullified, aborts its cancel-task and clears outbound; a
\* status event for another id changes neither and sends nothing.
C17_StatusNullifiesOutbound ==
    [][\A c \in ChallengeIds :
         StatusProcessed(c) =>
             IF outbound = c
             THEN /\ queue' = Append(queue, Nullified)
                  /\ cancel_tasks' = AbortCancelTask(cancel_tasks, c)
                  /\ cancel_tasks'[c] # "live"
                  /\ outbound' = NoId
             ELSE /\ queue' = queue
                  /\ cancel_tasks' = cancel_tasks
                  /\ outbound' = outbound]_vars

\* the status of the recorded challenge has just been processed: its cancel-task
\* is aborted and the notification is queued
C17_Witness ==
    /\ pc = "drain"
    /\ queue = <<Nullified>>
    /\ outbound = NoId
    /\ \E c \in ChallengeIds : rchal[c] = "gone" /\ cancel_tasks[c] = "aborted"

\* C18: the manager's outbound field holds one challenge or none, and a Created
\* event for a challenge of ours makes it the recorded one, whatever was
\* recorded before.
C18_CreatedReplacesOutbound ==
    [][\A c \in ChallengeIds :
         ExtChallengeCreated(c) => outbound' = c /\ outbound \in ChallengeIds \cup {NoId}]_vars

\* a Created event replaced a recorded challenge: the cancel-task of the earlier
\* one is still live beside that of the recorded one
C18_Witness ==
    \E c, d \in ChallengeIds :
        /\ c # d
        /\ outbound = c
        /\ cancel_tasks[c] = "live"
        /\ cancel_tasks[d] = "live"

\* the cancel-task of the recorded outbound challenge c has run out
TimedOut(c) == outbound = c /\ cancel_tasks[c] = "fired"

\* ChallengeRandomBot is queued or was the event dispatched last
ChallengeAttempted ==
    \/ last_processed = "ChallengeRandomBot"
    \/ \E i \in DOMAIN queue : queue[i].t = "ChallengeRandomBot"

\* C16: the cancel-task of the recorded outbound challenge enqueues
\* CancelChallenge for it; a status event for the recorded challenge clears
\* outbound and sends OutboundChallengeNullified, whose dispatch with no current
\* game enqueues FindNewGame; and once the cancel-task has run out the challenge
\* is in the end no longer the recorded one, and a game is current or a new
\* challenge is attempted.
C16_TimeoutLeadsToNewChallenge ==
    /\ [][/\ \A c \in ChallengeIds :
               /\ CancelTaskFire(c) => queue' = Append(queue, Ev("CancelChallenge", c, ""))
               /\ StatusProcessed(c) /\ TimedOut(c) =>
                      outbound' = NoId /\ queue' = Append(queue, Nullified)
          /\ DoOutboundChallengeNullified /\ ~CurrentGameIsSome(games, current_game_id) =>
                 queue' = Append(Tail(queue), FindNewGameEv)]_vars
    /\ \A c \in ChallengeIds :
          TimedOut(c) ~> (/\ outbound # c
                          /\ \/ ChallengeAttempted
                             \/ CurrentGameIsSome(games, current_game_id))

\* the challenge that timed out is gone and ChallengeRandomBot has been
\* dispatched anew with no game current
C16_Witness ==
    /\ last_processed = "ChallengeRandomBot"
    /\ ~CurrentGameIsSome(games, current_game_id)
    /\ \E c \in ChallengeIds : rchal[c] = "gone" /\ cancel_tasks[c] = "fired"

\* the voters of any game mode
SettingsVoters == settings_votes.bullet \cup settings_votes.rapid \cup settings_votes.classical

\* C19: settings() reports a game mode as on exactly when some user has voted
\* for a mode and the mode's voters are at least half of the users who voted for
\* any mode, each such user counted once.
C19_ModeOnIffHalfOfVoters ==
    \A m \in GameModes :
        Settings(settings_votes).game_modes[m]
            <=> /\ SettingsVoters # {}
                /\ 2 * Cardinality(settings_votes[m]) >= Cardinality(SettingsVoters)

\* three voters, one of them for two modes: bullet 1 of 3 is off, rapid 2 of 3
\* is on, classical 1 of 3 is off
C19_Witness ==
    /\ Cardinality(SettingsVoters) = 3
    /\ Cardinality(settings_votes.bullet) = 1
    /\ Cardinality(settings_votes.rapid) = 2
    /\ Cardinality(settings_votes.classical) = 1
    /\ Settings(settings_votes).game_modes =
           [m \in GameModes |-> m = "rapid"]
    /\ last_processed = "SettingsChanged"

C21_StartedGameIsRecorded ==
    [][\A g \in GameIds :
         /\ LiveCurrent
         /\ current_game_id # g
         /\ \E speed \in GameSpeeds, color \in Colors : ExtGameStart(g, speed, color)
         => g \in DOMAIN games']_vars

\* C22: in every state of the manager and for every id, switch_game(id) makes a
\* game that exists and is not finished the current game and sends
\* NewCurrentGame, and in every other case leaves no entry for id and sends
\* FindNewGame.
C22_SwitchGameContract ==
    \A g \in GameIds :
        LET sw == SwitchGame(games, current_game_id, g)
        IN  IF g \in DOMAIN games /\ ~games[g].finished
            THEN sw.cur = g /\ sw.out = <<Ev("NewCurrentGame", NoId, "")>>
            ELSE g \notin DOMAIN sw.games /\ sw.out = <<FindNewGameEv>>

\* C23: whenever current_game_id changes to Some(b), no live current game
\* existed before the change: current_game_id was None, or b itself, or named
\* a game a that was finished.
C23_NoSwitchPreempts ==
    [][current_game_id' # NoId /\ current_game_id' # current_game_id => ~LiveCurrent]_vars

\* a game is the live current game after another game was current and finished
C23_Witness ==
    /\ LiveCurrent
    /\ last_finished_game # <<>>
    /\ last_finished_game[1].id # current_game_id

\* C24: the GameStarted handler of a game G that is not the current game enqueues
\* SwitchGame(G) and spawns G's 30 s task, the task sends GameAbortable(G) when
\* it fires, and the GameAbortable handler enqueues Abort for G whatever has
\* become of G.
C24_StartedGameIsSwitchedAndAborted ==
    /\ [][DoGameStarted /\ ~(CurrentGameIsSome(games, current_game_id)
                              /\ current_game_id = Head(queue).g)
            => /\ queue' = Tail(queue) \o <<Ev("SwitchGame", Head(queue).g, "")>>
               /\ Head(queue).g \in abort_tasks']_vars
    /\ [][\A g \in GameIds : AbortTaskFire(g)
            => queue' = Append(queue, Ev("GameAbortable", g, ""))]_vars
    /\ [][DoGameAbortable
            => queue' = Tail(queue) \o <<Ev("Abort", Head(queue).g, "")>>]_vars

\* GameAbortable was dispatched for a game that has finished and left the map,
\* and its Abort is in the queue
C24_Witness ==
    /\ pc = "drain"
    /\ last_processed = "GameAbortable"
    /\ queue # <<>>
    /\ queue[Len(queue)].t = "Abort"
    /\ queue[Len(queue)].g \notin DOMAIN games
    /\ rgame[queue[Len(queue)].g].acct = "finished"

\* C25: dispatching an OpponentGone event changes neither the games, the votes
\* nor the challenge state and enqueues nothing.
C25_OpponentGoneIsNoOp ==
    [][(\E g \in GameIds : ExtOpponentGone(g))
         => /\ queue' = queue
            /\ UNCHANGED <<gmVars, game_votes, outbound, taskVars>>]_vars

\* the channel holds s, in order, ahead of whatever else t holds
IsPrefix(s, t) == Len(s) <= Len(t) /\ SubSeq(t, 1, Len(s)) = s

\* C26: the internal queue is first-in first-out (a step removes at most its head,
\* which is the event dispatched, and adds at its back only); an external event
\* is dispatched only at the start of a cycle, one per cycle; a cycle ends only
\* when the queue is found empty; and an external event after the first cycle
\* finds the queue empty (in the first cycle the queue holds the FindNewGame of
\* Engine::new).
C26_DrainBetweenExternalEvents ==
    /\ [][\/ IsPrefix(queue, queue')
          \/ /\ pc = "drain" /\ queue # <<>>
             /\ IsPrefix(Tail(queue), queue')
             /\ last_processed' = Head(queue).t]_vars
    /\ [][ExternalEvent => /\ pc = "fetch" /\ pc' = "drain"
                           /\ (queue = <<>> \/ last_processed = "none")]_vars
    /\ [][pc = "drain" /\ pc' = "fetch" => queue = <<>> /\ queue' = <<>>]_vars

\* a cycle has ended whose drain dispatched GameVotesChanged, an event that the
\* NewCurrentGame handler enqueued during that drain
C26_Witness ==
    /\ Quiescent
    /\ last_processed = "GameVotesChanged"
    /\ LiveCurrent

\* C27: after a GameFull or GameState update applied without error, the board
\* of the game is the replay of its move_history from the position of the
\* game's initial FEN.
C27_BoardIsReplayFromInitialFen ==
    probe.op = "game" /\ probe.ok
        => probe.board = ReplayFrom(BoardFromApiFen(probe.initial_fen),
                                    probe.move_history).board

\* C28: Timer::elapse(d) leaves no more time than there was, and none when d is
\* at least the time there was.
C28_ElapseSaturates ==
    probe.op = "elapse"
        => /\ AsMillis(probe.timer) <= AsMillis(probe.before)
           /\ probe.d >= AsMillis(probe.before) => AsMillis(probe.timer) = 0

\* a timer with time left was elapsed by more than it had
C28_Witness ==
    /\ probe.op = "elapse"
    /\ AsMillis(probe.before) > 0
    /\ probe.d > AsMillis(probe.before)

\* C29: a `!game <text>` whose text is neither delay, draw nor resign (in any
\* case of letters) nor a move that is legal on the board of a live current
\* game leaves the tracker as it is and enqueues nothing but the ChatCommand
\* notification of the command itself.
C29_InvalidVoteAdmitsNothing ==
    [][\A user \in Users, text \in ChatTexts :
         /\ ExtChatVote(user, text)
         /\ text \notin {"delay", "draw", "resign", "DRAW"}
         /\ ~(LiveCurrent /\ text \in MoveVotes
                          /\ Legal(games[current_game_id].plies, text))
         => /\ game_votes' = game_votes
            /\ queue' = queue \o <<Ev("ChatCommand", NoId, "")>>]_vars

\* a chat vote was dispatched while the tracker of a live current game was
\* enabled and a Delay allowed, and nothing but its ChatCommand was enqueued
C29_Witness ==
    /\ pc = "drain"
    /\ queue = <<Ev("ChatCommand", NoId, "")>>
    /\ LiveCurrent
    /\ game_votes.enabled
    /\ CanDelay(game_votes.delays)
    /\ game_votes.votes = EmptyMap

\* C30: a settings command whose argument is neither on nor off leaves the
\* three voter sets as they are.
C30_OtherArgumentIsNoOp ==
    [][\A user \in Users, mode \in {"rapid", "classical"} :
         ExtChatSettingText(user, mode, "maybe") => settings_votes' = settings_votes]_vars

\* C31: at most one commit task is live at any time.
C31_OneCommitTask == Len(vote_tasks) <= 1

\* C32: whenever make_move sends a voted action to the service for a game G, G
\* is the live current game.
C32_VotedActionIsForCurrentGame ==
    [][DoMove /\ commit'.vote \notin {"none", "delay"}
         => LiveCurrent /\ commit'.g = current_game_id]_vars

\* C33: a move that make_move takes from the tally for the live current game is
\* legal on that game's board.
C33_TalliedMoveIsLegal ==
    [][DoMove /\ commit'.vote \in MoveVotes /\ LiveCurrent /\ commit'.g = current_game_id
         => Legal(games[current_game_id].plies, commit'.vote)]_vars

\* C34: an OurTurn dispatched for a game in which no move has been played yet,
\* while the commit task of that game's window is running and held by the
\* tracker, leaves the commit tasks as they are.
C34_OneWindowPerTurn ==
    [][/\ DoOurTurn
       /\ Head(queue).g \in DOMAIN games
       /\ games[Head(queue).g].plies = 0
       /\ game_votes.vote_timer
       /\ \E i \in DOMAIN vote_tasks :
             vote_tasks[i].held /\ vote_tasks[i].game = Head(queue).g
       => vote_tasks' = vote_tasks]_vars

\* C35: when a commit task sends VotingFinished it has sent vote_duration ticks
\* and at least vote_duration seconds have passed since it was scheduled.
C35_WindowLastsVoteDuration ==
    probe.op = "interval" /\ probe.finished
        => probe.ticks = probe.duration /\ probe.elapsed >= probe.duration

\* C36: a FindNewGame handled with no current game switches to the game of the
\* least timestamp and creates no challenge when a game is held; only with no
\* game held does it clear the outbound challenge, abort its cancel-task and
\* enqueue exactly one ChallengeRandomBot. An aborted cancel-task never enqueues
\* its CancelChallenge.
C36_FindNewGamePrefersHeldGames ==
    /\ [][DoFindNewGame /\ ~LiveCurrent
            => LET held == IF current_game_id \in DOMAIN games
                           THEN DOMAIN games \ {current_game_id} ELSE DOMAIN games
                   crb == Ev("ChallengeRandomBot", NoId, "")
               IN  IF held # {}
                   THEN /\ \E g \in held :
                             /\ \A h \in held : games[g].ts <= games[h].ts
                             /\ IF games[g].finished
                                THEN g \notin DOMAIN games'
                                ELSE current_game_id' = g
                        /\ \A i \in DOMAIN queue' : queue'[i] # crb
                                \/ (i < Len(queue) /\ queue[i + 1] = crb)
                        /\ outbound' = outbound
                        /\ rchal' = rchal
                   ELSE /\ outbound' = NoId
                        /\ outbound # NoId => cancel_tasks'[outbound] # "live"
                        /\ queue' = Append(Tail(queue), crb)
                        /\ rchal' = rchal]_vars
    /\ [][\A c \in ChallengeIds : cancel_tasks[c] = "aborted"
            => /\ cancel_tasks'[c] = "aborted"
               /\ Len(SelectSeq(queue', LAMBDA e : e = Ev("CancelChallenge", c, "")))
                    <= Len(SelectSeq(queue, LAMBDA e : e = Ev("CancelChallenge", c, "")))]_vars

C36_Witness ==
    /\ last_processed = "FindNewGame"
    /\ DOMAIN games = {}
    /\ outbound = NoId
    /\ queue # <<>> /\ queue[Len(queue)] = Ev("ChallengeRandomBot", NoId, "")
    /\ \E c \in ChallengeIds : cancel_tasks[c] = "aborted"

\* C37: a GameState whose move list board_from_moves cannot replay leaves the
\* game as it was: the board and the move history keep their values.
C37_UnreplayableStateIsDropped ==
    [][\A moves \in MoveLists :
          GameStateApplied(moves) /\ ~BoardFromMoves(moves).some
              => probe'.board = probe.board /\ probe'.move_history = probe.move_history]_vars

\* C38: a GameState that leaves the board of the game as it was (its move list
\* is the one the game already has) enqueues no Move and no Capture clip.
C38_ClipOnlyOnBoardChange ==
    [][(\E g \in GameIds, status \in {"started", "mate"},
           winner \in {"none", "white"} :
             ExtGameState(g, FALSE, status, winner))
         => \A i \in DOMAIN queue' :
               i > Len(queue)
                 => ~(queue'[i].t = "PlayClip" /\ queue'[i].x \in {"Move", "Capture"})]_vars

\* C39: once a challenge of ours has been accepted, and as long as no GameStart
\* has been processed, no further challenge is created. (Every challenge the
\* service has answered was accepted.)
C39_NoChallengeAfterAccepted ==
    [][/\ \E c \in ChallengeIds : rchal[c] = "gone"
       /\ \A g \in GameIds : rgame[g].acct = "none"
       => \A d \in ChallengeIds : rchal[d] = "none" => rchal'[d] = "none"]_vars

\* C40: every drain of the internal queue ends, so the engine comes back to
\* fetching an external event again and again, also when every
\* ChallengeRandomBot fails.
C40_DrainTerminates == []<>(pc = "fetch")
====
